---- MODULE Spec2Model ----
(***************************************************************************)
(* Forkd recipe journal: the record store (recipes, edits, experiments,    *)
(* permission rows) and the request handlers of api_server.py that read    *)
(* and change it.  One action per handler; every handler records the       *)
(* request it served and the status it answered.                           *)
(*                                                                         *)
(* api_server.py calls parts of the model layer that model.py does not     *)
(* hold: model.Permission, Recipe.is_experiments_public, and the module    *)
(* permissions_helper (get_timeline).  These are modelled from the         *)
(* specification; the relationships, their ordering, get_previous and      *)
(* update_last_modified are those of model.py.  The content fields of an   *)
(* edit or experiment (title, notes, commit_by, ...) are read by no guard  *)
(* and are left out of the rows.                                           *)
(***************************************************************************)
EXTENDS Integers, Sequences, FiniteSets

\* ---------------------------------------------------------------- bounds
NumUsers == 2
MaxRecipes == 1
MaxEdits == 3
MaxExperiments == 2
MaxClock == 4
NumWorkers == 2

Users == 1..NumUsers
RecipeIds == 1..MaxRecipes
EditIds == 1..MaxEdits
ExperimentIds == 1..MaxExperiments
\* the request-handling threads of the server
Workers == 1..NumWorkers

\* token_auth.current_user() of an optional-login route: None
Anonymous == 0
Viewers == Users \cup {Anonymous}
\* a NULL foreign key
NULL == 0
\* Python's None, as a timeline item / get_previous result
None == [kind |-> "none", id |-> 0, commit_date |-> 0]

VARIABLES
    recipes,             \* table recipes: rows [id, user_id, is_public, is_experiments_public, last_modified]
    edits,               \* table edits: rows [id, recipe_id, commit_date]
    experiments,         \* table experiments: rows [id, recipe_id, commit_date]
    permissions,         \* table permissions: rows [user_id, recipe_id, can_edit, can_experiment]
    next_recipe_id,      \* autoincrement sequences of the three primary keys
    next_edit_id,
    next_experiment_id,
    clock,               \* the last value datetime.now() returned
    request,             \* the request served last: [op, actor, id]
    status,              \* the HTTP status it was answered with
    body,                \* the timeline_items of a 200 answer (else empty)
    founding,            \* history: recipe id -> id of the edit created with it
    inflight             \* per worker thread: the create request it is in the middle of

store == <<recipes, edits, experiments, permissions>>
seqs == <<next_recipe_id, next_edit_id, next_experiment_id>>
vars == <<recipes, edits, experiments, permissions, next_recipe_id, next_edit_id,
          next_experiment_id, clock, request, status, body, founding, inflight>>

\* ------------------------------------------------------------ the models
\* Recipe.get_by_id: the row, or the empty set for None
Recipe_get_by_id(id) == {r \in recipes : r.id = id}
Edit_get_by_id(id) == {e \in edits : e.id = id}
Experiment_get_by_id(id) == {x \in experiments : x.id = id}

\* Permission.get_by_user_and_recipe: the row of the pair, or none
get_by_user_and_recipe(user_id, recipe_id) ==
    {p \in permissions : p.user_id = user_id /\ p.recipe_id = recipe_id}

\* a faulty ordering: oldest first
OrderByAsc(S) ==
    {s \in [1..Cardinality(S) -> S] :
        /\ \A i, j \in 1..Cardinality(S) : i # j => s[i] # s[j]
        /\ \A i, j \in 1..Cardinality(S) : i < j => s[i].commit_date <= s[j].commit_date}

\* order_by='desc(commit_date)': every ordering of the rows S the query may
\* return; rows of equal commit_date come in an order the database picks
OrderBy(S) ==
    {s \in [1..Cardinality(S) -> S] :
        /\ \A i, j \in 1..Cardinality(S) : i # j => s[i] # s[j]
        /\ \A i, j \in 1..Cardinality(S) : i < j => s[i].commit_date >= s[j].commit_date}

\* Recipe.edits / Recipe.experiments: the relationship collections
Recipe_edits(recipe_id) == OrderBy({e \in edits : e.recipe_id = recipe_id})
Recipe_experiments(recipe_id) == OrderBy({x \in experiments : x.recipe_id = recipe_id})

\* list.index
IndexOf(lst, e) == CHOOSE i \in 1..Len(lst) : lst[i] = e /\ \A j \in 1..(i - 1) : lst[j] # e

\* a faulty navigator: walks towards the newer edit
get_previous_newer(self, edits_list) ==
    IF edits_list[1] = self THEN None
    ELSE edits_list[IndexOf(edits_list, self) - 1]

\* Edit.get_previous, on the edits_list that self.recipe.edits gave
get_previous(self, edits_list) ==
    IF edits_list[Len(edits_list)] = self THEN None
    ELSE edits_list[IndexOf(edits_list, self) + 1]

\* Recipe.update_last_modified
update_last_modified(self, modified_date) == [self EXCEPT !.last_modified = modified_date]

\* datetime.now(): never before the value it gave last
Now == {t \in {clock, clock + 1} : t <= MaxClock}

\* ------------------------------------------------- permissions_helper (ph)
IsOwner(viewer, recipe) == viewer # Anonymous /\ viewer = recipe.user_id

\* resolve(viewer, recipe).canView
canView(viewer, recipe) ==
    \/ recipe.is_public
    \/ get_by_user_and_recipe(viewer, recipe.id) # {}
    \/ IsOwner(viewer, recipe)

canEditContent(viewer, recipe) ==
    \/ IsOwner(viewer, recipe)
    \/ \E p \in get_by_user_and_recipe(viewer, recipe.id) : p.can_edit

canAddExperiment(viewer, recipe) ==
    \/ IsOwner(viewer, recipe)
    \/ \E p \in get_by_user_and_recipe(viewer, recipe.id) : p.can_experiment

\* the experiment-visibility gate of the timeline
experimentsVisible(viewer, recipe) ==
    \/ IsOwner(viewer, recipe)
    \/ recipe.is_experiments_public
    \/ \E p \in get_by_user_and_recipe(viewer, recipe.id) : p.can_experiment \/ p.can_edit

EditItem(e) == [kind |-> "edit", id |-> e.id, commit_date |-> e.commit_date]
ExperimentItem(x) == [kind |-> "experiment", id |-> x.id, commit_date |-> x.commit_date]
EditItems(lst) == [i \in 1..Len(lst) |-> EditItem(lst[i])]
ExperimentItems(lst) == [i \in 1..Len(lst) |-> ExperimentItem(lst[i])]

\* the 2-way merge of two descending sequences: the head with the larger
\* commit_date first, the edit first when the two are equal
RECURSIVE merge(_, _)
merge(a, b) ==
    IF a = <<>> THEN b
    ELSE IF b = <<>> THEN a
    ELSE IF Head(a).commit_date >= Head(b).commit_date
         THEN <<Head(a)>> \o merge(Tail(a), b)
         ELSE <<Head(b)>> \o merge(a, Tail(b))

\* ph.get_timeline(viewer, id), on the two collections the recipe gave
get_timeline(viewer, id, edits_list, experiments_list) ==
    IF Recipe_get_by_id(id) = {} THEN [tag |-> "NotFound"]
    ELSE LET recipe == CHOOSE r \in Recipe_get_by_id(id) : TRUE IN
         IF ~canView(viewer, recipe) THEN [tag |-> "Forbidden"]
         ELSE [tag |-> "Ok",
               items |-> merge(EditItems(edits_list),
                               IF experimentsVisible(viewer, recipe)
                               THEN ExperimentItems(experiments_list)
                               ELSE <<>>),
               can_experiment |-> canAddExperiment(viewer, recipe),
               can_edit |-> canEditContent(viewer, recipe)]

\* ------------------------------------------------------- the access checks
\* a faulty check for submit_new_edit: reads the other capability
edit_permitted_by_experiment(actor, id) ==
    \/ \E p \in get_by_user_and_recipe(actor, id) : p.can_experiment
    \/ \E r \in Recipe_get_by_id(id) : r.user_id = actor

\* submit_new_edit: getattr(permission, 'can_edit', False) or this_recipe.owner == current_user
edit_permitted(actor, id) ==
    \/ \E p \in get_by_user_and_recipe(actor, id) : p.can_edit
    \/ \E r \in Recipe_get_by_id(id) : r.user_id = actor

\* a faulty check for submit_new_exp: any permission row will do
experiment_permitted_by_row(actor, id) ==
    \/ get_by_user_and_recipe(actor, id) # {}
    \/ \E r \in Recipe_get_by_id(id) : r.user_id = actor

\* submit_new_exp: getattr(permission, 'can_experiment', False) or this_recipe.owner == current_user
experiment_permitted(actor, id) ==
    \/ \E p \in get_by_user_and_recipe(actor, id) : p.can_experiment
    \/ \E r \in Recipe_get_by_id(id) : r.user_id = actor

\* a faulty check for delete_edit: what its comment says, "or has edit access"
delete_edit_permitted_with_edit_access(actor, this_edit) ==
    \/ \E r \in Recipe_get_by_id(this_edit.recipe_id) : r.user_id = actor
    \/ \E p \in get_by_user_and_recipe(actor, this_edit.recipe_id) : p.can_edit

\* delete_edit: token_auth.current_user().id != this_edit.recipe.user_id
delete_edit_permitted(actor, this_edit) ==
    \E r \in Recipe_get_by_id(this_edit.recipe_id) : r.user_id = actor

\* delete_experiment: token_auth.current_user().id != this_experiment.recipe.user_id
delete_experiment_permitted(actor, this_experiment) ==
    \E r \in Recipe_get_by_id(this_experiment.recipe_id) : r.user_id = actor

\* delete_recipe: token_auth.current_user() != this_recipe.owner
delete_recipe_permitted(actor, this_recipe) == this_recipe.user_id = actor

\* ------------------------------------------------------------ the handlers
Request(op, actor, id) == [op |-> op, actor |-> actor, id |-> id]

\* an answer that leaves every table as it was (an error response, or the
\* rollback of a handler that raised)
Answer(code) ==
    /\ status' = code
    /\ body' = <<>>
    /\ UNCHANGED <<store, seqs, clock, founding>>

\* a worker thread that is serving no create request
NoRequest ==
    [pc |-> "idle", op |-> "none", actor |-> Anonymous, id |-> 0, now |-> 0, loaded |-> 0]

Init ==
    /\ recipes = {}
    /\ edits = {}
    /\ experiments = {}
    /\ permissions = {}
    /\ next_recipe_id = 1
    /\ next_edit_id = 1
    /\ next_experiment_id = 1
    /\ clock = 0
    /\ request = Request("none", Anonymous, 0)
    /\ status = 0
    /\ body = <<>>
    /\ founding = [r \in {} |-> 0]
    /\ inflight = [w \in Workers |-> NoRequest]

\* POST /api/recipes: the recipe and its first edit, in one commit
create_new_recipe(submitter, is_public, is_experiments_public) ==
    \E now \in Now :
        /\ next_recipe_id <= MaxRecipes
        /\ next_edit_id <= MaxEdits
        /\ request' = Request("create_new_recipe", submitter, next_recipe_id)
        /\ recipes' = recipes \cup
              {[id |-> next_recipe_id, user_id |-> submitter, is_public |-> is_public,
                is_experiments_public |-> is_experiments_public, last_modified |-> now]}
        /\ edits' = edits \cup
              {[id |-> next_edit_id, recipe_id |-> next_recipe_id, commit_date |-> now]}
        /\ founding' = [r \in DOMAIN founding \cup {next_recipe_id} |->
                            IF r = next_recipe_id THEN next_edit_id ELSE founding[r]]
        /\ next_recipe_id' = next_recipe_id + 1
        /\ next_edit_id' = next_edit_id + 1
        /\ clock' = now
        /\ status' = 201
        /\ body' = <<>>
        /\ UNCHANGED <<experiments, permissions, next_experiment_id>>

\* a faulty route: the wrong index, it tests timeline_items[1], the can_experiment flag
timeline_status_by_flag(timeline_items) ==
    IF timeline_items.tag = "NotFound" THEN 404
    ELSE IF timeline_items.tag = "Forbidden" THEN 403
    ELSE IF ~timeline_items.can_experiment THEN 403
    ELSE 200

\* a faulty route: no second test, whatever was found is answered
timeline_status_unchecked(timeline_items) ==
    IF timeline_items.tag = "NotFound" THEN 404 ELSE 200

\* the route's answer to what ph.get_timeline returned: 404 if not
\* timeline_items, 403 if not timeline_items[0] (None, or an empty list)
timeline_status(timeline_items) ==
    IF timeline_items.tag = "NotFound" THEN 404
    ELSE IF timeline_items.tag = "Forbidden" THEN 403
    ELSE IF timeline_items.items = <<>> THEN 403
    ELSE 200

\* timeline_items[0], as a list
timeline_list(timeline_items) ==
    IF timeline_items.tag = "Ok" THEN timeline_items.items ELSE <<>>

\* GET /api/recipes/<id>
read_recipe_timeline(viewer, id) ==
    \E edits_list \in Recipe_edits(id), experiments_list \in Recipe_experiments(id) :
        LET timeline_items == get_timeline(viewer, id, edits_list, experiments_list) IN
        /\ request' = Request("read_recipe_timeline", viewer, id)
        /\ status' = timeline_status(timeline_items)
        /\ body' = IF timeline_status(timeline_items) = 200
                   THEN timeline_list(timeline_items) ELSE <<>>
        /\ UNCHANGED <<store, seqs, clock, founding>>

\* DELETE /api/recipes/<id>
delete_recipe(actor, id) ==
    /\ request' = Request("delete_recipe", actor, id)
    /\ IF Recipe_get_by_id(id) = {}
       THEN Answer(500)     \* None.owner raises
       ELSE LET this_recipe == CHOOSE r \in Recipe_get_by_id(id) : TRUE IN
            IF ~delete_recipe_permitted(actor, this_recipe)
            THEN Answer(403)
            ELSE /\ recipes' = recipes \ {this_recipe}
                 \* no delete cascade on Recipe.edits / Recipe.experiments:
                 \* the session sets the children's recipe_id to NULL
                 /\ edits' = {IF e.recipe_id = id THEN [e EXCEPT !.recipe_id = NULL] ELSE e
                                 : e \in edits}
                 /\ experiments' = {IF x.recipe_id = id THEN [x EXCEPT !.recipe_id = NULL] ELSE x
                                       : x \in experiments}
                 /\ permissions' = {p \in permissions : p.recipe_id # id}
                 /\ status' = 204
                 /\ body' = <<>>
                 /\ UNCHANGED <<seqs, clock, founding>>

\* POST /api/recipes/<id>
submit_new_exp(actor, id) ==
    \E now \in Now :
        /\ request' = Request("submit_new_exp", actor, id)
        /\ IF Recipe_get_by_id(id) = {}
           THEN Answer(500)     \* None.owner, or None.update_last_modified, raises
           ELSE LET this_recipe == CHOOSE r \in Recipe_get_by_id(id) : TRUE IN
                IF ~experiment_permitted(actor, id)
                THEN Answer(403)
                ELSE /\ next_experiment_id <= MaxExperiments
                     /\ experiments' = experiments \cup
                           {[id |-> next_experiment_id, recipe_id |-> id, commit_date |-> now]}
                     /\ recipes' = (recipes \ {this_recipe})
                                      \cup {update_last_modified(this_recipe, now)}
                     /\ next_experiment_id' = next_experiment_id + 1
                     /\ clock' = now
                     /\ status' = 201
                     /\ body' = <<>>
                     /\ UNCHANGED <<edits, permissions, next_recipe_id, next_edit_id, founding>>

\* PUT /api/recipes/<id>
submit_new_edit(actor, id) ==
    \E now \in Now :
        /\ request' = Request("submit_new_edit", actor, id)
        /\ IF Recipe_get_by_id(id) = {}
           THEN Answer(500)     \* None.owner, or None.update_last_modified, raises
           ELSE LET this_recipe == CHOOSE r \in Recipe_get_by_id(id) : TRUE IN
                IF ~edit_permitted(actor, id)
                THEN Answer(403)
                ELSE /\ next_edit_id <= MaxEdits
                     /\ edits' = edits \cup
                           {[id |-> next_edit_id, recipe_id |-> id, commit_date |-> now]}
                     /\ recipes' = (recipes \ {this_recipe})
                                      \cup {update_last_modified(this_recipe, now)}
                     /\ next_edit_id' = next_edit_id + 1
                     /\ clock' = now
                     /\ status' = 201
                     /\ body' = <<>>
                     /\ UNCHANGED <<experiments, permissions, next_recipe_id,
                                    next_experiment_id, founding>>

\* DELETE /api/edits/<id>
delete_edit(actor, id) ==
    /\ request' = Request("delete_edit", actor, id)
    /\ IF Edit_get_by_id(id) = {}
       THEN Answer(500)     \* None.recipe raises
       ELSE LET this_edit == CHOOSE e \in Edit_get_by_id(id) : TRUE IN
            IF this_edit.recipe_id = NULL
            THEN Answer(500)     \* this_edit.recipe is None: None.user_id raises
            ELSE IF ~delete_edit_permitted(actor, this_edit)
            THEN Answer(403)
            ELSE /\ edits' = edits \ {this_edit}
                 /\ status' = 204
                 /\ body' = <<>>
                 /\ UNCHANGED <<recipes, experiments, permissions, seqs, clock, founding>>

\* DELETE /api/experiments/<id>
delete_experiment(actor, id) ==
    /\ request' = Request("delete_experiment", actor, id)
    /\ IF Experiment_get_by_id(id) = {}
       THEN Answer(500)     \* None.recipe raises
       ELSE LET this_experiment == CHOOSE x \in Experiment_get_by_id(id) : TRUE IN
            IF this_experiment.recipe_id = NULL
            THEN Answer(500)     \* this_experiment.recipe is None: None.user_id raises
            ELSE IF ~delete_experiment_permitted(actor, this_experiment)
            THEN Answer(403)
            ELSE /\ experiments' = experiments \ {this_experiment}
                 /\ status' = 204
                 /\ body' = <<>>
                 /\ UNCHANGED <<recipes, edits, permissions, seqs, clock, founding>>

\* the owner-only sharing operation: creates or updates the grantee's row
share_recipe(actor, id, grantee, can_edit, can_experiment) ==
    /\ request' = Request("share_recipe", actor, id)
    /\ IF Recipe_get_by_id(id) = {}
       THEN Answer(404)
       ELSE LET this_recipe == CHOOSE r \in Recipe_get_by_id(id) : TRUE IN
            IF actor # this_recipe.user_id
            THEN Answer(403)
            ELSE /\ grantee # actor
                 /\ permissions' = (permissions \ get_by_user_and_recipe(grantee, id)) \cup
                       {[user_id |-> grantee, recipe_id |-> id,
                         can_edit |-> can_edit, can_experiment |-> can_experiment]}
                 /\ status' = 200
                 /\ body' = <<>>
                 /\ UNCHANGED <<recipes, edits, experiments, seqs, clock, founding>>

\* the response is sent and the request context is torn down; the handlers
\* run one request at a time
teardown_request ==
    /\ request.op # "none"
    /\ request' = Request("none", Anonymous, 0)
    /\ status' = 0
    /\ body' = <<>>
    /\ UNCHANGED <<store, seqs, clock, founding>>

Idle == request.op = "none"

Next ==
    \/ Idle /\ UNCHANGED inflight
            /\ \E u \in Users, p, xp \in BOOLEAN : create_new_recipe(u, p, xp)
    \/ Idle /\ UNCHANGED inflight
            /\ \E v \in Viewers, id \in RecipeIds : read_recipe_timeline(v, id)
    \/ Idle /\ UNCHANGED inflight
            /\ \E u \in Users, id \in RecipeIds : delete_recipe(u, id)
    \/ Idle /\ UNCHANGED inflight
            /\ \E u \in Users, id \in RecipeIds : submit_new_exp(u, id)
    \/ Idle /\ UNCHANGED inflight
            /\ \E u \in Users, id \in RecipeIds : submit_new_edit(u, id)
    \/ Idle /\ UNCHANGED inflight
            /\ \E u \in Users, id \in EditIds : delete_edit(u, id)
    \/ Idle /\ UNCHANGED inflight
            /\ \E u \in Users, id \in ExperimentIds : delete_experiment(u, id)
    \/ Idle /\ UNCHANGED inflight
            /\ \E u, g \in Users, id \in RecipeIds, ce, cx \in BOOLEAN :
                  share_recipe(u, id, g, ce, cx)
    \/ teardown_request /\ UNCHANGED inflight

Spec == Init /\ [][Next]_vars

\* ------------------------------------------- two create requests at a time
\* The server runs its handlers on threads, each with a session of its own:
\* what a handler adds to its session is seen by the others at its commit.
\* submit_new_edit and submit_new_exp in their three steps.

\* the UPDATE of the worker's flush: the session writes last_modified only
\* if the handler changed it from the value the row was loaded with
flush_last_modified(req) ==
    {IF r.id = req.id /\ req.now # req.loaded THEN update_last_modified(r, req.now) ELSE r
        : r \in recipes}

\* the bound on the primary keys, counting the rows the workers are about
\* to insert
IdsLeft(op) ==
    LET pending == Cardinality({v \in Workers : inflight[v].op = op}) IN
    IF op = "submit_new_edit" THEN next_edit_id + pending <= MaxEdits
    ELSE next_experiment_id + pending <= MaxExperiments

\* the handler down to its permission check: now = datetime.now(),
\* this_recipe = Recipe.get_by_id(id) (the row as loaded into the worker's
\* session), the 403 (or the raise on None)
submit_begin(w, op, actor, id) ==
    \E now \in Now :
        /\ inflight[w].pc = "idle"
        /\ IF Recipe_get_by_id(id) = {}
           THEN /\ request' = Request(op, actor, id)
                /\ Answer(500)
                /\ UNCHANGED inflight
           ELSE IF ~(IF op = "submit_new_edit" THEN edit_permitted(actor, id)
                                               ELSE experiment_permitted(actor, id))
           THEN /\ request' = Request(op, actor, id)
                /\ Answer(403)
                /\ UNCHANGED inflight
           ELSE /\ IdsLeft(op)
                /\ inflight' = [inflight EXCEPT ![w] =
                       [pc |-> "checked", op |-> op, actor |-> actor, id |-> id, now |-> now,
                        loaded |-> (CHOOSE r \in Recipe_get_by_id(id) : TRUE).last_modified]]
                /\ clock' = now
                /\ UNCHANGED <<store, seqs, request, status, body, founding>>

\* Edit.create / Experiment.create, this_recipe.update_last_modified(now),
\* session.add_all: pending in the worker's session, no table changes yet
submit_write(w) ==
    /\ inflight[w].pc = "checked"
    /\ inflight' = [inflight EXCEPT ![w].pc = "written"]
    /\ UNCHANGED <<store, seqs, clock, request, status, body, founding>>

\* session.commit() of submit_new_edit: INSERT the edit, UPDATE the recipe's
\* last_modified to the handler's own now; then the 201
submit_new_edit_commit(w) ==
    /\ inflight[w].pc = "written"
    /\ inflight[w].op = "submit_new_edit"
    /\ next_edit_id <= MaxEdits
    /\ edits' = edits \cup
          {[id |-> next_edit_id, recipe_id |-> inflight[w].id, commit_date |-> inflight[w].now]}
    /\ recipes' = flush_last_modified(inflight[w])
    /\ next_edit_id' = next_edit_id + 1
    /\ request' = Request(inflight[w].op, inflight[w].actor, inflight[w].id)
    /\ status' = 201
    /\ body' = <<>>
    /\ inflight' = [inflight EXCEPT ![w] = NoRequest]
    /\ UNCHANGED <<experiments, permissions, next_recipe_id, next_experiment_id, clock, founding>>

\* session.commit() of submit_new_exp
submit_new_exp_commit(w) ==
    /\ inflight[w].pc = "written"
    /\ inflight[w].op = "submit_new_exp"
    /\ next_experiment_id <= MaxExperiments
    /\ experiments' = experiments \cup
          {[id |-> next_experiment_id, recipe_id |-> inflight[w].id,
            commit_date |-> inflight[w].now]}
    /\ recipes' = flush_last_modified(inflight[w])
    /\ next_experiment_id' = next_experiment_id + 1
    /\ request' = Request(inflight[w].op, inflight[w].actor, inflight[w].id)
    /\ status' = 201
    /\ body' = <<>>
    /\ inflight' = [inflight EXCEPT ![w] = NoRequest]
    /\ UNCHANGED <<edits, permissions, next_recipe_id, next_edit_id, clock, founding>>

NextConcurrent ==
    \/ UNCHANGED inflight /\ \E u \in Users, p, xp \in BOOLEAN : create_new_recipe(u, p, xp)
    \/ \E w \in Workers, u \in Users, id \in RecipeIds : submit_begin(w, "submit_new_edit", u, id)
    \/ \E w \in Workers, u \in Users, id \in RecipeIds : submit_begin(w, "submit_new_exp", u, id)
    \/ \E w \in Workers : submit_write(w)
    \/ \E w \in Workers : submit_new_edit_commit(w)
    \/ \E w \in Workers : submit_new_exp_commit(w)

SpecConcurrent == Init /\ [][NextConcurrent]_vars

\* ------------------------------------------------------------- properties
RecipeExists(id) == \E r \in recipes : r.id = id
RecipeRow(id) == CHOOSE r \in recipes : r.id = id
EditsOf(id) == {e \in edits : e.recipe_id = id}
ExperimentsOf(id) == {x \in experiments : x.recipe_id = id}
HasRow(user, id) == \E p \in permissions : p.user_id = user /\ p.recipe_id = id
HoldsCanEdit(user, id) ==
    \E p \in permissions : p.user_id = user /\ p.recipe_id = id /\ p.can_edit
HoldsCanExperiment(user, id) ==
    \E p \in permissions : p.user_id = user /\ p.recipe_id = id /\ p.can_experiment

\* C1: a create-edit request on an existing recipe appends exactly one Edit
\* to it and is answered 201 if the actor is the owner or holds can_edit;
\* otherwise it is answered 403 (Forbidden) and the edits are as they were.
C1_CreateEditGated ==
    [][\A a \in Users, id \in RecipeIds :
          (request' = Request("submit_new_edit", a, id) /\ RecipeExists(id)) =>
             IF RecipeRow(id).user_id = a \/ HoldsCanEdit(a, id)
             THEN /\ status' = 201
                  /\ edits \subseteq edits'
                  /\ Cardinality(edits' \ edits) = 1
                  /\ \A e \in edits' \ edits : e.recipe_id = id
             ELSE /\ status' = 403
                  /\ edits' = edits]_vars

\* C1 witness: an actor holding can_experiment but not can_edit was refused
C1_Witness ==
    /\ request.op = "submit_new_edit"
    /\ status = 403
    /\ RecipeExists(request.id)
    /\ \E p \in permissions : /\ p.user_id = request.actor
                              /\ p.recipe_id = request.id
                              /\ p.can_experiment /\ ~p.can_edit

\* C2: a create-experiment request on an existing recipe appends exactly one
\* Experiment to it and is answered 201 if the actor is the owner or holds
\* can_experiment; otherwise it is answered 403 and the experiments are as
\* they were.
C2_CreateExperimentGated ==
    [][\A a \in Users, id \in RecipeIds :
          (request' = Request("submit_new_exp", a, id) /\ RecipeExists(id)) =>
             IF RecipeRow(id).user_id = a \/ HoldsCanExperiment(a, id)
             THEN /\ status' = 201
                  /\ experiments \subseteq experiments'
                  /\ Cardinality(experiments' \ experiments) = 1
                  /\ \A x \in experiments' \ experiments : x.recipe_id = id
             ELSE /\ status' = 403
                  /\ experiments' = experiments]_vars

\* C2 witness: an actor holding can_edit but not can_experiment was refused
C2_Witness ==
    /\ request.op = "submit_new_exp"
    /\ status = 403
    /\ RecipeExists(request.id)
    /\ \E p \in permissions : /\ p.user_id = request.actor
                              /\ p.recipe_id = request.id
                              /\ p.can_edit /\ ~p.can_experiment

C4_FoundingEditKept ==
    \A r \in recipes :
        \E f \in EditsOf(r.id) :
            /\ f.id = founding[r.id]
            /\ \A e \in EditsOf(r.id) : f.commit_date <= e.commit_date

DistinctDates(S) == \A a, b \in S : a # b => a.commit_date # b.commit_date

\* C5: in a recipe whose edits have pairwise distinct commit_dates,
\* get_previous of the minimum-commit_date edit is None, and get_previous of
\* any other edit E is the edit of the recipe with the largest commit_date
\* smaller than E's.
C5_GetPreviousWalksBack ==
    \A r \in recipes :
        DistinctDates(EditsOf(r.id)) =>
            \A edits_list \in Recipe_edits(r.id) :
                \A e \in EditsOf(r.id) :
                    LET older == {o \in EditsOf(r.id) : o.commit_date < e.commit_date} IN
                    IF older = {}
                    THEN get_previous(e, edits_list) = None
                    ELSE /\ get_previous(e, edits_list) \in older
                         /\ \A o \in older :
                               o.commit_date <= get_previous(e, edits_list).commit_date

\* a recipe holding three edits of distinct dates, an experiment having
\* been deleted before
C5_ThreeEdits ==
    \E r \in recipes :
        /\ Cardinality(EditsOf(r.id)) = 3
        /\ DistinctDates(EditsOf(r.id))
        /\ Cardinality(experiments) < next_experiment_id - 1

\* C5 witness after an edit was deleted: two edits of distinct dates remain
\* and the edit created between them is gone
C5_Witness ==
    \E r \in recipes :
        /\ Cardinality(EditsOf(r.id)) = 2
        /\ DistinctDates(EditsOf(r.id))
        /\ \E a, b \in EditsOf(r.id) : a.id + 1 < b.id

FullVisibility(viewer, r) ==
    \/ viewer # Anonymous /\ viewer = r.user_id
    \/ /\ r.is_public \/ HasRow(viewer, r.id)
       /\ \/ r.is_experiments_public
          \/ HoldsCanEdit(viewer, r.id)
          \/ HoldsCanExperiment(viewer, r.id)

Descending(items) ==
    \A i, j \in 1..Len(items) : i < j => items[i].commit_date >= items[j].commit_date

Occurrences(items, it) == Cardinality({i \in 1..Len(items) : items[i] = it})

\* C6: the timeline answered to a viewer with full visibility of the recipe
\* holds every Edit and every Experiment of the recipe exactly once and
\* nothing else, in descending commit_date order; it is answered 200
\* whenever the recipe has an item.
C6_TimelineMerge ==
    (request.op = "read_recipe_timeline" /\ RecipeExists(request.id)
        /\ FullVisibility(request.actor, RecipeRow(request.id))) =>
       /\ \A e \in EditsOf(request.id) : Occurrences(body, EditItem(e)) = 1
       /\ \A x \in ExperimentsOf(request.id) : Occurrences(body, ExperimentItem(x)) = 1
       /\ Len(body) = Cardinality(EditsOf(request.id)) + Cardinality(ExperimentsOf(request.id))
       /\ Descending(body)
       /\ (EditsOf(request.id) \cup ExperimentsOf(request.id) # {} => status = 200)

\* C6 witness: three edits and two experiments of five distinct dates
\* answered interleaved, as in edits [5,3,1], experiments [4,2]
C6_Witness ==
    /\ request.op = "read_recipe_timeline"
    /\ status = 200
    /\ Len(body) = 5
    /\ [i \in 1..5 |-> body[i].kind] = <<"edit", "experiment", "edit", "experiment", "edit">>
    /\ \A i \in 1..4 : body[i].commit_date > body[i + 1].commit_date

\* C7: on a public recipe with is_experiments_public = false, the timeline
\* answered to a viewer who is not the owner and has no Permission row
\* holds no Experiment and holds every Edit of the recipe exactly once in
\* descending commit_date order; it is answered 200 whenever the recipe has
\* an edit.
C7_ExperimentsFiltered ==
    (request.op = "read_recipe_timeline" /\ RecipeExists(request.id)
        /\ RecipeRow(request.id).is_public
        /\ ~RecipeRow(request.id).is_experiments_public
        /\ request.actor # RecipeRow(request.id).user_id
        /\ ~HasRow(request.actor, request.id)) =>
       /\ \A i \in 1..Len(body) : body[i].kind = "edit"
       /\ \A e \in EditsOf(request.id) : Occurrences(body, EditItem(e)) = 1
       /\ Len(body) = Cardinality(EditsOf(request.id))
       /\ Descending(body)
       /\ (EditsOf(request.id) # {} => status = 200)

\* C7 witness: such a viewer was answered the three edits of a recipe that
\* also holds two experiments dated between them
C7_Witness ==
    /\ request.op = "read_recipe_timeline"
    /\ status = 200
    /\ RecipeExists(request.id)
    /\ ~RecipeRow(request.id).is_experiments_public
    /\ request.actor # RecipeRow(request.id).user_id
    /\ ~HasRow(request.actor, request.id)
    /\ Len(body) = 3
    /\ Cardinality(ExperimentsOf(request.id)) = 2
    /\ \A x \in ExperimentsOf(request.id) :
          body[3].commit_date < x.commit_date /\ x.commit_date < body[1].commit_date

\* C8: the timeline request of a viewer (a user or the anonymous viewer) who
\* is not the owner and has no Permission row, on an existing recipe with
\* is_public = false, is answered 403 with no item.
C8_PrivateHidden ==
    (request.op = "read_recipe_timeline" /\ RecipeExists(request.id)
        /\ ~RecipeRow(request.id).is_public
        /\ request.actor # RecipeRow(request.id).user_id
        /\ ~HasRow(request.actor, request.id)) =>
       status = 403 /\ body = <<>>

\* C8 witness: the anonymous viewer was refused a private recipe that holds
\* edits and experiments, its experiments being public
C8_Witness ==
    /\ request.op = "read_recipe_timeline"
    /\ request.actor = Anonymous
    /\ status = 403
    /\ RecipeExists(request.id)
    /\ ~RecipeRow(request.id).is_public
    /\ RecipeRow(request.id).is_experiments_public
    /\ EditsOf(request.id) # {}
    /\ ExperimentsOf(request.id) # {}

\* C9: after a successful delete-recipe of R no Edit and no Experiment that
\* belonged to R is left in the store, and no Permission row of R.
C9_DeleteRecipeCascades ==
    [][\A a \in Users, id \in RecipeIds :
          (request' = Request("delete_recipe", a, id) /\ status' = 204) =>
             /\ \A e \in EditsOf(id) : ~(\E f \in edits' : f.id = e.id)
             /\ \A x \in ExperimentsOf(id) : ~(\E y \in experiments' : y.id = x.id)
             /\ ~(\E p \in permissions' : p.recipe_id = id)]_vars

\* C10: a create-edit, create-experiment or delete-recipe request naming a
\* recipe id that does not exist, and a delete-edit or delete-experiment
\* request naming an edit or experiment id that does not exist, is answered
\* 404 (NotFound) and leaves every table as it was.
C10_MissingTargetNotFound ==
    [][/\ \A a \in Users, id \in RecipeIds :
             (request'.op \in {"submit_new_edit", "submit_new_exp", "delete_recipe"}
                 /\ request'.actor = a /\ request'.id = id /\ ~RecipeExists(id)) =>
                status' = 404 /\ store' = store
       /\ \A a \in Users, id \in EditIds :
             (request' = Request("delete_edit", a, id) /\ ~(\E e \in edits : e.id = id)) =>
                status' = 404 /\ store' = store
       /\ \A a \in Users, id \in ExperimentIds :
             (request' = Request("delete_experiment", a, id)
                 /\ ~(\E x \in experiments : x.id = id)) =>
                status' = 404 /\ store' = store]_vars

\* C11: the timeline request of the owner of an existing recipe is answered
\* 200 (never 403, never 404), also when the recipe has no visible item; a
\* timeline request on an existing recipe is answered 403 only when the
\* viewer cannot view the recipe (not public, no Permission row, not owner).
C11_OwnerNeverRefused ==
    (request.op = "read_recipe_timeline" /\ RecipeExists(request.id)) =>
       /\ request.actor = RecipeRow(request.id).user_id => status = 200
       /\ status = 403 =>
             ~(\/ RecipeRow(request.id).is_public
               \/ HasRow(request.actor, request.id)
               \/ request.actor = RecipeRow(request.id).user_id)

\* C12: the last_modified of every recipe is greater than or equal to the
\* commit_date of every Edit and Experiment the recipe holds, also when two
\* create requests on the recipe are served at a time.
C12_LastModifiedNeverLags ==
    \A r \in recipes :
        \A it \in EditsOf(r.id) \cup ExperimentsOf(r.id) :
            r.last_modified >= it.commit_date

====
